---- MODULE Spec2Model ----
(***************************************************************************)
(* Model of the concurrent benchmark execution engine of the load test:    *)
(* WriteTest.runConcurrentWrites (src/src/tests/writeTest.js) and          *)
(* ReadTest.runConcurrentReads (src/src/tests/readTest.js).                *)
(*                                                                         *)
(* The engine runs on the Node.js event loop.  A run is made of three      *)
(* kinds of steps, each of which runs to completion without interleaving:  *)
(*   - the synchronous body of runConcurrentWrites / runConcurrentReads,   *)
(*     which queues the initial processBatch / processQuery callbacks      *)
(*     with setImmediate;                                                  *)
(*   - a setImmediate callback: the part of processBatch / processQuery    *)
(*     up to the await of the backend call;                                *)
(*   - the continuation of processBatch / processQuery after the backend   *)
(*     call has settled, up to the end of the function.                    *)
(* The setImmediate queue is FIFO; backend calls settle in any order.      *)
(***************************************************************************)
EXTENDS Integers, Sequences, FiniteSets

\* ------------------------------------------------------------- bounds

\* Largest totalRecords (write) / totalQueries (read) of a configuration.
MaxTotal == 3
\* Largest concurrency of a configuration.
MaxConcurrency == 3

\* Sample values of the inputs the environment supplies.
BatchSizes == {1, 2}
\* Date.now() differences measured around one backend call, in ms.
Latencies == {0, 5}
\* messages.length of a successful getMessagesByUser.
MessageCounts == {0, 2}
\* Date.now() differences measured around one call of a database adapter, in ms.
DbLatencies == {5}
\* Date.now() differences measured around the whole run, in ms.
TotalTimes == {0, 5, 8}

\* Largest number of further calls of the run operation on one instance.
MaxReruns == 1
\* Largest number of operations of a run on an instance that is used again.
MaxReuseTotal == 2

\* Largest minLength given to generateRandomString.
MaxMinLength == 12
\* Some of the SAMPLE_WORDS, the shortest among them.
SampleWords == {"data", "neural", "science", "intelligence"}

\* Largest number of records of an enumerated result list given to the reporter.
MaxSamples == 5
\* Largest length of a result list of distinct, descending latencies.
MaxRamp == 101

\* Sample latencies of the successful records given to the reporter, and
\* the latency of its failed records.
ReportLatencies == {10, 20, 30, 40, 50}
ReportRecords ==
    {[latency |-> l, success |-> TRUE] : l \in ReportLatencies}
        \cup {[latency |-> 5, success |-> FALSE]}

Kinds == {"write", "read"}

\* Number.POSITIVE_INFINITY, the initial minLatency: larger than any latency.
Infinity == 1000000

\* undefined, the value of an array read outside the array.
Undefined == -1

VARIABLES
    kind,          \* "write": a WriteTest instance, "read": a ReadTest instance
    config,        \* this.config
    promise,       \* the promise of the run: "none" (not called), "pending", "resolved", "rejected"
    queue,         \* the setImmediate queue: callbacks processBatch(idx), FIFO
    inflight,      \* the backend calls awaited by a processBatch activation
    completed,     \* completedBatches / completedQueries
    activeTasks,   \* activeTasks
    results,       \* the local array results
    thisResults,   \* this.results
    dispatchLog,   \* history: the backend calls dispatched so far, in order
    finalizeCount, \* history: how often the finalize-and-resolve block has run
    fault,         \* history: the exceptions raised outside the backend call
    reporterBatches, \* PerformanceReporter: results.batches / results.queries of one database
    latencyReport, \* PerformanceReporter: what generateLatencyAnalysis has printed
    reruns,        \* history: the calls of the run operation after the first, on this instance
    stuck,         \* the backend calls in flight that never settle
    backend,       \* the database: its pool, its rows, the progress of each backend call
    gen,           \* generateRandomString: minLength, words, currentLength, the string returned
    cli,           \* the benchmark command: its position, the tables, the operations issued
    reporter       \* PerformanceReporter: this.results of every database, the best performers announced

\* The state of the engine of a run.
engine == <<kind, config, promise, queue, inflight, completed, activeTasks,
            results, thisResults, dispatchLog, finalizeCount>>

\* The state of the layers around the engine.
outer == <<reruns, stuck, backend, gen, cli, reporter>>

\* The state outside the engine of a run.
aux == <<fault, reporterBatches, latencyReport, outer>>

vars == <<kind, config, promise, queue, inflight, completed, activeTasks,
          results, thisResults, dispatchLog, finalizeCount, aux>>

\* ------------------------------------------------------------ helpers

\* Mutant of Min: the first argument, whatever the second.
MinLeft(a, b) == a

Min(a, b) == IF a < b THEN a ELSE b
Max(a, b) == IF a > b THEN a ELSE b

\* Math.ceil(a / b) for b > 0.
CeilDiv(a, b) == -((-a) \div b)

RECURSIVE SumLatency(_)
SumLatency(s) == IF s = <<>> THEN 0 ELSE Head(s).latency + SumLatency(Tail(s))

\* The elements of a sequence.
Range(s) == {s[n] : n \in 1..Len(s)}

\* ------------------------------------------------------ configuration

concurrency == config.concurrency

\* totalBatches (write) / totalQueries (read): the number of operations of the run.
total ==
    IF kind = "write"
    THEN CeilDiv(config.totalRecords, config.batchSize)
    ELSE config.totalQueries

\* Mutant of actualBatchSize: every batch is a full batch.
actualBatchSizeFull(batchIndex) == config.batchSize

\* actualBatchSize of batch batchIndex.
actualBatchSize(batchIndex) ==
    Min(config.batchSize, config.totalRecords - batchIndex * config.batchSize)

\* Mutant of InitialResults: minLatency starts at 0, like maxLatency.
InitialResultsMinZero ==
    [ units              |-> 0,
      totalQueries       |-> 0,
      totalTime          |-> 0,
      rate               |-> [num |-> 0, den |-> 1],
      errors             |-> 0,
      records            |-> <<>>,
      avgLatency         |-> [num |-> 0, den |-> 1],
      minLatency         |-> 0,
      maxLatency         |-> 0,
      avgRecordsPerQuery |-> [num |-> 0, den |-> 1] ]

\* The initial value of this.results set by the constructor.
InitialResults ==
    [ units              |-> 0,          \* totalRecords / totalRecordsRead
      totalQueries       |-> 0,
      totalTime          |-> 0,
      rate               |-> [num |-> 0, den |-> 1],   \* tps / qps
      errors             |-> 0,
      records            |-> <<>>,       \* batches / queries
      avgLatency         |-> [num |-> 0, den |-> 1],
      minLatency         |-> Infinity,
      maxLatency         |-> 0,
      avgRecordsPerQuery |-> [num |-> 0, den |-> 1] ]

\* No exception has been raised; the process is running.
NoFault == [dispatch |-> 0, handler |-> 0, executor |-> 0, exited |-> FALSE]

\* generateLatencyAnalysis has not been called.
NoReport == [done |-> FALSE, percentiles |-> <<>>]

\* No backend call has begun: no connection is checked out, no row has been
\* persisted by the run.
NoBackend == [useBatchInsert |-> TRUE, checkedOut |-> 0, calls |-> <<>>]

\* generateRandomString has not been called.
NoString == [pc |-> "idle", minLength |-> 0, words |-> <<>>, currentLength |-> 0, string |-> ""]

\* new PerformanceReporter(): this.results is empty, nothing is announced.
NoReporter == [results |-> <<>>, compared |-> {}, best |-> [write |-> "", read |-> ""]]

\* No command has been given.
NoCli == [pc |-> "idle", setup |-> FALSE, databases |-> <<>>, db |-> 0,
          tables |-> <<>>, testOps |-> <<>>]

Init ==
    /\ kind \in Kinds
    /\ \E n \in (-1)..MaxTotal, b \in BatchSizes, c \in 1..MaxConcurrency :
          config = IF kind = "write"
                   THEN [totalRecords |-> n, batchSize |-> b,
                         totalQueries |-> 0, concurrency |-> c]
                   ELSE [totalRecords |-> 0, batchSize |-> 1,
                         totalQueries |-> n, concurrency |-> c]
    /\ promise = "none"
    /\ queue = <<>>
    /\ inflight = {}
    /\ completed = 0
    /\ activeTasks = 0
    /\ results = <<>>
    /\ thisResults = InitialResults
    /\ dispatchLog = <<>>
    /\ finalizeCount = 0
    /\ fault = NoFault
    /\ reporterBatches = <<>>
    /\ latencyReport = NoReport
    /\ reporter = NoReporter
    /\ reruns = 0
    /\ stuck = {}
    /\ backend = NoBackend
    /\ gen = NoString
    /\ cli = NoCli

\* -------------------------------------------------------- the engine

\* Mutants of InitialLanes: every index started at once; one lane per
\* configured worker whatever the total.
InitialLanesAll == total
InitialLanesUnclamped == concurrency

\* Mutant of InitialLanes: only the first lane is started by the run; the
\* others never start.
InitialLanesOne == Min(1, total)

\* The number of callbacks the start loop queues: Math.min(concurrency, total).
InitialLanes == Min(concurrency, total)

\* Mutant of NextIndex: the lane walks the indices one by one.
NextIndexSuccessor(batchIndex) == batchIndex + 1

\* nextBatchIndex / nextQueryIndex.
NextIndex(batchIndex) == batchIndex + concurrency

\* Mutants of IsDone: the in-flight count alone; failures left out of the
\* count; the run ended on the first failure.
IsDoneIdle(done, errors, active) == active = 0
IsDoneSuccessOnly(done, errors, active) == done >= total /\ active = 0
IsDoneFailFast(done, errors, active) ==
    errors > 0 \/ (done + errors >= total /\ active = 0)

\* The completion check.
IsDone(done, errors, active) == done + errors >= total /\ active = 0

\* The record executeBatch / executeQuery returns for one backend call.
\* ok: the backend call fulfilled; lat: the measured latency; cnt: messages.length.
executeBatch(e, ok, lat, cnt) ==
    [ idx         |-> e.idx,
      lane        |-> e.lane,
      recordCount |-> IF kind = "write" THEN actualBatchSize(e.idx)
                      ELSE IF ok THEN cnt ELSE 0,
      latency     |-> lat,
      success     |-> ok,
      error       |-> IF ok THEN "absent" ELSE "message" ]

\* Mutant of successful: every record counts as successful.
successfulAll(rs) == rs

\* results.filter(r => r.success)
successful(rs) == SelectSeq(rs, LAMBDA r : r.success)

\* Mutant of Finalize: the rate is left per millisecond.
FinalizePerMs(tr, rs, done, t) ==
    LET succ == successful(rs)
        q    == IF kind = "read" THEN done ELSE tr.totalQueries
        num  == IF kind = "read" THEN q ELSE tr.units
    IN [tr EXCEPT
          !.totalTime = t,
          !.totalQueries = q,
          !.rate = [num |-> num, den |-> t],
          !.records = rs,
          !.avgLatency = IF Len(succ) > 0
                         THEN [num |-> SumLatency(succ), den |-> Len(succ)]
                         ELSE @,
          !.avgRecordsPerQuery = IF kind = "read" /\ Len(succ) > 0
                                 THEN [num |-> tr.units, den |-> Len(succ)]
                                 ELSE @]

\* The finalize block of the completion check, applied to this.results.
Finalize(tr, rs, done, t) ==
    LET succ == successful(rs)
        q    == IF kind = "read" THEN done ELSE tr.totalQueries
        num  == IF kind = "read" THEN q ELSE tr.units
    IN [tr EXCEPT
          !.totalTime = t,
          !.totalQueries = q,
          !.rate = [num |-> num * 1000, den |-> t],
          !.records = rs,
          !.avgLatency = IF Len(succ) > 0
                         THEN [num |-> SumLatency(succ), den |-> Len(succ)]
                         ELSE @,
          !.avgRecordsPerQuery = IF kind = "read" /\ Len(succ) > 0
                                 THEN [num |-> tr.units, den |-> Len(succ)]
                                 ELSE @]

\* The synchronous body of runConcurrentWrites / runConcurrentReads.
RunConcurrent ==
    /\ promise = "none"
    /\ promise' = "pending"
    /\ completed' = 0
    /\ activeTasks' = 0
    /\ results' = <<>>
    /\ queue' = [n \in 1..Max(0, InitialLanes) |-> [idx |-> n - 1, lane |-> n - 1]]
    /\ UNCHANGED <<kind, config, inflight, thisResults, dispatchLog, finalizeCount, aux>>

\* Mutant of ProcessBatch: the next index of the lane is queued when the
\* current one is dispatched, not when its record has been produced.
ProcessBatchEager ==
    /\ promise # "none"
    /\ queue # <<>>
    /\ LET e == Head(queue) IN
         IF e.idx >= total
         THEN /\ queue' = Tail(queue)
              /\ UNCHANGED <<activeTasks, inflight, dispatchLog>>
         ELSE /\ queue' = Append(Tail(queue), [idx |-> NextIndex(e.idx), lane |-> e.lane])
              /\ activeTasks' = activeTasks + 1
              /\ inflight' = inflight \cup {e}
              /\ dispatchLog' = Append(dispatchLog, e)
    /\ UNCHANGED <<kind, config, promise, completed, results, thisResults, finalizeCount, aux>>

\* A setImmediate callback: processBatch / processQuery up to its await.
ProcessBatch ==
    /\ promise # "none"
    /\ queue # <<>>
    /\ LET e == Head(queue) IN
         IF e.idx >= total
         THEN /\ queue' = Tail(queue)
              /\ UNCHANGED <<activeTasks, inflight, dispatchLog>>
         ELSE /\ queue' = Tail(queue)
              /\ activeTasks' = activeTasks + 1
              /\ inflight' = inflight \cup {e}
              /\ dispatchLog' = Append(dispatchLog, e)
    /\ UNCHANGED <<kind, config, promise, completed, results, thisResults, finalizeCount, aux>>

\* The continuation of processBatch / processQuery once the backend call of
\* e has settled: the record, the counters, the completion check, the next index.
ProcessBatchResume(e, ok, lat, cnt) ==
    /\ promise # "none"
    /\ e \in inflight
    /\ LET result  == executeBatch(e, ok, lat, cnt)
           rs      == Append(results, result)
           done    == IF result.success THEN completed + 1 ELSE completed
           counted == [thisResults EXCEPT
                         !.units = IF result.success THEN @ + result.recordCount ELSE @,
                         !.errors = IF result.success THEN @ ELSE @ + 1,
                         !.minLatency = Min(@, result.latency),
                         !.maxLatency = Max(@, result.latency)]
           active  == activeTasks - 1
       IN /\ inflight' = inflight \ {e}
          /\ results' = rs
          /\ completed' = done
          /\ activeTasks' = active
          /\ IF IsDone(done, counted.errors, active)
             THEN /\ \E t \in TotalTimes :
                        /\ t >= counted.maxLatency
                        /\ thisResults' = Finalize(counted, rs, done, t)
                  /\ promise' = "resolved"
                  /\ finalizeCount' = finalizeCount + 1
                  /\ queue' = queue
             ELSE /\ thisResults' = counted
                  /\ UNCHANGED <<promise, finalizeCount>>
                  /\ queue' = IF NextIndex(e.idx) < total
                              THEN Append(queue, [idx |-> NextIndex(e.idx), lane |-> e.lane])
                              ELSE queue
    /\ UNCHANGED <<kind, config, dispatchLog, aux>>

\* A backend call settles, fulfilled or rejected, and its continuation runs.
Resume ==
    \E e \in inflight, ok \in BOOLEAN, lat \in Latencies, cnt \in MessageCounts :
        ProcessBatchResume(e, ok, lat, cnt)

Next == RunConcurrent \/ ProcessBatch \/ Resume

Spec == Init /\ [][Next]_vars

\* Every queued callback is eventually run and every backend call eventually
\* settles.
FairSpec ==
    Spec /\ WF_vars(RunConcurrent) /\ WF_vars(ProcessBatch) /\ WF_vars(Resume)

\* ------------------------------------- exceptions outside the backend call

\* The places of the try block of processBatch / processQuery, after the
\* await, at which a statement may throw: the push of the record, the
\* latency statistics (after the tally), the progress report (after the
\* statistics).
FaultPoints == {"push", "stats", "progress"}

\* processBatch / processQuery from activeTasks-- to its end, entered from
\* the catch block: the completion check, the finalize block, the next index.
AfterTry(e, rs, done, counted) ==
    LET active == activeTasks - 1
    IN /\ inflight' = inflight \ {e}
       /\ results' = rs
       /\ completed' = done
       /\ activeTasks' = active
       /\ IF IsDone(done, counted.errors, active)
          THEN /\ \E t \in TotalTimes :
                     /\ t >= counted.maxLatency
                     /\ thisResults' = Finalize(counted, rs, done, t)
               /\ promise' = "resolved"
               /\ finalizeCount' = finalizeCount + 1
               /\ queue' = queue
          ELSE /\ thisResults' = counted
               /\ UNCHANGED <<promise, finalizeCount>>
               /\ queue' = IF NextIndex(e.idx) < total
                           THEN Append(queue, [idx |-> NextIndex(e.idx), lane |-> e.lane])
                           ELSE queue

\* The continuation of processBatch / processQuery when a statement of its
\* try block throws at point: the catch block logs the error and counts it
\* in this.results.errors, and the function goes on after the try.
ProcessBatchCatch(e, ok, lat, cnt, point) ==
    /\ promise # "none"
    /\ e \in inflight
    /\ LET result  == executeBatch(e, ok, lat, cnt)
           pushed  == point # "push"
           rs      == IF pushed THEN Append(results, result) ELSE results
           done    == IF pushed /\ result.success THEN completed + 1 ELSE completed
           tallied == IF pushed
                      THEN [thisResults EXCEPT
                              !.units = IF result.success THEN @ + result.recordCount ELSE @,
                              !.errors = IF result.success THEN @ ELSE @ + 1]
                      ELSE thisResults
           stats   == IF point = "progress"
                      THEN [tallied EXCEPT
                              !.minLatency = Min(@, result.latency),
                              !.maxLatency = Max(@, result.latency)]
                      ELSE tallied
           counted == [stats EXCEPT !.errors = @ + 1]
       IN AfterTry(e, rs, done, counted)
    /\ fault' = [fault EXCEPT !.handler = @ + 1]
    /\ UNCHANGED <<kind, config, dispatchLog, reporterBatches, latencyReport, outer>>

HandlerFault ==
    /\ ~fault.exited
    /\ \E e \in inflight, ok \in BOOLEAN, lat \in Latencies, cnt \in MessageCounts,
          point \in FaultPoints :
           ProcessBatchCatch(e, ok, lat, cnt, point)

\* A setImmediate callback in which generateBatch / getRandomUserId throws:
\* activeTasks has been incremented, the statement is outside the try, the
\* async function rejects and nothing awaits it.  Node.js 16 ends the
\* process on an unhandled rejection, and so does the handler of the CLI.
DispatchFault ==
    /\ ~fault.exited
    /\ promise # "none"
    /\ queue # <<>>
    /\ Head(queue).idx < total
    /\ queue' = Tail(queue)
    /\ activeTasks' = activeTasks + 1
    /\ fault' = [fault EXCEPT !.dispatch = @ + 1, !.exited = TRUE]
    /\ UNCHANGED <<kind, config, promise, inflight, completed, results, thisResults,
                   dispatchLog, finalizeCount, reporterBatches, latencyReport, outer>>

\* The steps of the engine while the process is running.
LiveProcessBatch == ~fault.exited /\ ProcessBatch
LiveResume == ~fault.exited /\ Resume

NextFault ==
    RunConcurrent \/ LiveProcessBatch \/ LiveResume \/ HandlerFault \/ DispatchFault

\* Runs in which the code around the backend call may throw.
SpecFault == Init /\ [][NextFault]_vars

\* The backend call of e rejects with a value that has no properties (null,
\* undefined): the catch block of executeBatch / executeQuery reads
\* error.message and throws a TypeError, which escapes the executor into
\* the catch block of processBatch / processQuery; no record is produced.
ExecutorThrows ==
    /\ promise # "none"
    /\ \E e \in inflight :
          AfterTry(e, results, completed, [thisResults EXCEPT !.errors = @ + 1])
    /\ fault' = [fault EXCEPT !.executor = @ + 1]
    /\ UNCHANGED <<kind, config, dispatchLog, reporterBatches, latencyReport, outer>>

NextThrow == RunConcurrent \/ ProcessBatch \/ Resume \/ ExecutorThrows

\* Runs in which a backend call may reject with any value.
SpecThrow == Init /\ [][NextThrow]_vars

\* ------------------------------------------ PerformanceReporter

\* batches.filter(b => b.success).map(b => b.latency)
SuccessLatencies(batches) ==
    LET succ == SelectSeq(batches, LAMBDA b : b.success)
    IN [n \in 1..Len(succ) |-> succ[n].latency]

\* The place of s[j] in the ascending order of s (equal values keep their
\* order, as Array.prototype.sort is stable).
SortRank(s, j) ==
    Cardinality({k \in 1..Len(s) : s[k] < s[j] \/ (s[k] = s[j] /\ k < j)}) + 1

\* latencies.sort((a, b) => a - b)
SortAsc(s) ==
    [i \in 1..Len(s) |-> s[CHOOSE j \in 1..Len(s) : SortRank(s, j) = i]]

\* Mutant of PercentileIndex: the nearest-rank index ceil(n * p) - 1.
PercentileIndexNearestRank(n, num, den) == CeilDiv(n * num, den) - 1

\* Math.floor(latencies.length * p), p = num / den (0-based index).
PercentileIndex(n, num, den) == (n * num) \div den

\* latencies[Math.floor(latencies.length * p)]
Percentile(latencies, num, den) ==
    LET i == PercentileIndex(Len(latencies), num, den)
    IN IF i >= 0 /\ i < Len(latencies) THEN latencies[i + 1] ELSE Undefined

\* Mutant of GenerateLatencyAnalysis: the percentiles are read whatever the
\* number of successful records.
GenerateLatencyAnalysisUnguarded ==
    /\ ~latencyReport.done
    /\ LET latencies == SortAsc(SuccessLatencies(reporterBatches))
       IN latencyReport' =
            [done |-> TRUE,
             percentiles |-> << Percentile(latencies, 50, 100),
                                Percentile(latencies, 95, 100),
                                Percentile(latencies, 99, 100) >>]
    /\ UNCHANGED <<kind, config, promise, queue, inflight, completed, activeTasks,
                   results, thisResults, dispatchLog, finalizeCount, fault,
                   reporterBatches, outer>>

\* generateLatencyAnalysis for the result list of one database: the
\* percentiles p50, p95, p99 it prints, none when no record is successful.
GenerateLatencyAnalysis ==
    /\ ~latencyReport.done
    /\ LET latencies == SortAsc(SuccessLatencies(reporterBatches))
       IN latencyReport' =
            [done |-> TRUE,
             percentiles |-> IF Len(latencies) > 0
                             THEN << Percentile(latencies, 50, 100),
                                     Percentile(latencies, 95, 100),
                                     Percentile(latencies, 99, 100) >>
                             ELSE <<>>]
    /\ UNCHANGED <<kind, config, promise, queue, inflight, completed, activeTasks,
                   results, thisResults, dispatchLog, finalizeCount, fault,
                   reporterBatches, outer>>

\* A result list of n successful records with the latencies n, n-1, ..., 1.
Ramp(n) == [i \in 1..n |-> [latency |-> n + 1 - i, success |-> TRUE]]

\* A reporter that has been given the result list of one database.
InitReport ==
    /\ kind = "write"
    /\ config = [totalRecords |-> 0, batchSize |-> 1, totalQueries |-> 0, concurrency |-> 1]
    /\ promise = "none"
    /\ queue = <<>>
    /\ inflight = {}
    /\ completed = 0
    /\ activeTasks = 0
    /\ results = <<>>
    /\ thisResults = InitialResults
    /\ dispatchLog = <<>>
    /\ finalizeCount = 0
    /\ fault = NoFault
    /\ reporterBatches \in
          UNION {[1..k -> ReportRecords] : k \in 0..MaxSamples}
             \cup {Ramp(n) : n \in 0..MaxRamp}
    /\ latencyReport = NoReport
    /\ reporter = NoReporter
    /\ reruns = 0
    /\ stuck = {}
    /\ backend = NoBackend
    /\ gen = NoString
    /\ cli = NoCli

NextReport == GenerateLatencyAnalysis

\* The latency analysis of the reporter on every bounded result list.
ReportSpec == InitReport /\ [][NextReport]_vars

\* ------------------------------------------- a runner instance used again

\* The synchronous body of runConcurrentWrites / runConcurrentReads called
\* again on the same instance once the previous run has resolved and none
\* of its callbacks is left: the locals of the run are new, this.results is
\* the object the constructor made, with what the previous run left in it.
RunAgain ==
    /\ promise = "resolved"
    /\ queue = <<>>
    /\ inflight = {}
    /\ reruns < MaxReruns
    /\ reruns' = reruns + 1
    /\ promise' = "pending"
    /\ completed' = 0
    /\ activeTasks' = 0
    /\ results' = <<>>
    /\ queue' = [n \in 1..Max(0, InitialLanes) |-> [idx |-> n - 1, lane |-> n - 1]]
    /\ dispatchLog' = <<>>
    /\ finalizeCount' = 0
    /\ UNCHANGED <<kind, config, inflight, thisResults, fault, reporterBatches,
                   latencyReport, stuck, backend, gen, cli, reporter>>

\* A freshly constructed instance of a run of at most MaxReuseTotal operations.
InitReuse == Init /\ total <= MaxReuseTotal

NextReuse == RunConcurrent \/ ProcessBatch \/ Resume \/ RunAgain

\* Runs of an instance on which the run operation may be called again.
ReuseSpec == InitReuse /\ [][NextReuse]_vars

\* --------------------------------------- a backend call that never settles

\* The backend call of e never settles: executeBatch / executeQuery has no
\* timer, so the await of processBatch / processQuery never resumes.
Hang ==
    /\ stuck = {}
    /\ \E e \in inflight : stuck' = {e}
    /\ UNCHANGED <<engine, fault, reporterBatches, latencyReport, reruns, backend, gen, cli,
                   reporter>>

\* A backend call other than the stuck one settles and its continuation runs.
ResumeOthers ==
    \E e \in inflight \ stuck, ok \in BOOLEAN, lat \in Latencies, cnt \in MessageCounts :
        ProcessBatchResume(e, ok, lat, cnt)

NextHang == RunConcurrent \/ ProcessBatch \/ ResumeOthers \/ Hang

\* Runs in which one backend call may never settle; every queued callback
\* is eventually run and every other backend call eventually settles.
HangSpec ==
    /\ Init /\ [][NextHang]_vars
    /\ WF_vars(RunConcurrent) /\ WF_vars(ProcessBatch) /\ WF_vars(ResumeOthers)

\* ------------------------------------------------- the database adapters

\* A backend call of executeBatch that has not begun.  pc: the statement the
\* call is at; done: the records of the batch inserted so far; pending: the
\* rows inserted in the open transaction; persisted: the rows of the batch
\* that are durable; value: the value returned; error: what the call threw;
\* acquired, released: pool.connect() fulfilled, client.release() called.
NoCall == [pc |-> "start", done |-> 0, pending |-> 0, persisted |-> 0, value |-> 0,
           error |-> "none", acquired |-> 0, released |-> 0]

\* The call of batch i.
Call(i) == backend.calls[i]

\* insertBatch after COMMIT has succeeded: the rows of the transaction are
\* durable, dataArray.length is returned, the finally block releases.
InsertBatchCommit(c, n) ==
    [c EXCEPT !.pc = "returned", !.persisted = c.pending, !.pending = 0,
              !.value = n, !.released = @ + 1]

\* Mutant of InsertBatchRollback: the rows inserted before the failure stay.
InsertBatchNoRollback(c, ok) ==
    [c EXCEPT !.pc = "threw", !.persisted = c.pending, !.pending = 0,
              !.error = IF ok THEN "statement" ELSE "rollback",
              !.released = @ + 1]

\* Mutant of InsertBatchRollback: the connection is released only when the
\* rollback has succeeded.
InsertBatchRollbackLeak(c, ok) ==
    [c EXCEPT !.pc = "threw", !.pending = 0,
              !.error = IF ok THEN "statement" ELSE "rollback",
              !.released = IF ok THEN @ + 1 ELSE @]

\* insertBatch in its catch block after ROLLBACK has settled: the open
\* transaction is gone (rolled back, or aborted by the server with a
\* connection on which ROLLBACK cannot be done), the error of the failed
\* statement, or that of ROLLBACK when it rejects, is thrown, the finally
\* block releases.
InsertBatchRollback(c, ok) ==
    [c EXCEPT !.pc = "threw", !.pending = 0,
              !.error = IF ok THEN "statement" ELSE "rollback",
              !.released = @ + 1]

\* The backend with the call of batch i moved to c: the pool counts the
\* connections acquired and released by the step.
WithCall(i, c) ==
    [backend EXCEPT !.calls[i] = c,
                    !.checkedOut = @ + (c.acquired - Call(i).acquired)
                                     - (c.released - Call(i).released)]

\* What a step of a backend call leaves alone.
DbFrame ==
    UNCHANGED <<engine, fault, reporterBatches, latencyReport, reruns, stuck, gen, cli, reporter>>

\* insertBatch: await pool.connect() / pool.getConnection(), outside the try.
PoolConnect ==
    /\ backend.useBatchInsert
    /\ \E e \in inflight, ok \in BOOLEAN :
          /\ Call(e.idx).pc = "start"
          /\ backend' = WithCall(e.idx,
                IF ok THEN [Call(e.idx) EXCEPT !.pc = "begin", !.acquired = @ + 1]
                      ELSE [Call(e.idx) EXCEPT !.pc = "threw", !.error = "connect"])
    /\ DbFrame

\* insertBatch: await client.query('BEGIN') / connection.beginTransaction().
Begin ==
    /\ \E e \in inflight, ok \in BOOLEAN :
          /\ Call(e.idx).pc = "begin"
          /\ backend' = WithCall(e.idx,
                [Call(e.idx) EXCEPT !.pc = IF ok THEN "insert" ELSE "rollback"])
    /\ DbFrame

\* insertBatch: one await client.query(INSERT) of the for loop.
Insert ==
    /\ \E e \in inflight, ok \in BOOLEAN :
          /\ Call(e.idx).pc = "insert"
          /\ Call(e.idx).done < actualBatchSize(e.idx)
          /\ backend' = WithCall(e.idx,
                IF ok THEN [Call(e.idx) EXCEPT !.done = @ + 1, !.pending = @ + 1]
                      ELSE [Call(e.idx) EXCEPT !.pc = "rollback"])
    /\ DbFrame

\* insertBatch: await client.query('COMMIT') / connection.commit(), and
\* the return through the finally block when it succeeds.
Commit ==
    /\ \E e \in inflight, ok \in BOOLEAN :
          /\ Call(e.idx).pc = "insert"
          /\ Call(e.idx).done = actualBatchSize(e.idx)
          /\ backend' = WithCall(e.idx,
                IF ok THEN InsertBatchCommit(Call(e.idx), actualBatchSize(e.idx))
                      ELSE [Call(e.idx) EXCEPT !.pc = "rollback"])
    /\ DbFrame

\* insertBatch: the catch block, await client.query('ROLLBACK') /
\* connection.rollback(), and the throw through the finally block.
Rollback ==
    /\ \E e \in inflight, ok \in BOOLEAN :
          /\ Call(e.idx).pc = "rollback"
          /\ backend' = WithCall(e.idx, InsertBatchRollback(Call(e.idx), ok))
    /\ DbFrame

\* executeBatch without useBatchInsert: one await insertMessage(record) of
\* the for loop; the INSERT is a transaction of its own on a connection the
\* pool lends to pool.query.
InsertMessage ==
    /\ ~backend.useBatchInsert
    /\ \E e \in inflight, ok \in BOOLEAN :
          /\ Call(e.idx).pc = "start"
          /\ backend' = WithCall(e.idx,
                IF ok
                THEN [Call(e.idx) EXCEPT
                        !.done = @ + 1, !.persisted = @ + 1,
                        !.pc = IF Call(e.idx).done + 1 = actualBatchSize(e.idx)
                               THEN "returned" ELSE "start"]
                ELSE [Call(e.idx) EXCEPT !.pc = "threw", !.error = "statement"])
    /\ DbFrame

\* The backend call of e has returned or thrown: executeBatch makes the
\* record and processBatch goes on.
DbResume ==
    \E e \in inflight, lat \in DbLatencies :
        /\ Call(e.idx).pc \in {"returned", "threw"}
        /\ ProcessBatchResume(e, Call(e.idx).pc = "returned", lat, 0)

\* A freshly constructed WriteTest on a database adapter, in either insert mode.
InitDb ==
    /\ kind = "write"
    /\ \E n \in 1..MaxTotal, b \in BatchSizes, c \in 1..MaxConcurrency :
          config = [totalRecords |-> n, batchSize |-> b,
                    totalQueries |-> 0, concurrency |-> c]
    /\ promise = "none"
    /\ queue = <<>>
    /\ inflight = {}
    /\ completed = 0
    /\ activeTasks = 0
    /\ results = <<>>
    /\ thisResults = InitialResults
    /\ dispatchLog = <<>>
    /\ finalizeCount = 0
    /\ fault = NoFault
    /\ reporterBatches = <<>>
    /\ latencyReport = NoReport
    /\ reporter = NoReporter
    /\ reruns = 0
    /\ stuck = {}
    /\ \E m \in BOOLEAN :
          backend = [useBatchInsert |-> m, checkedOut |-> 0,
                     calls |-> [i \in 0..(total - 1) |-> NoCall]]
    /\ gen = NoString
    /\ cli = NoCli

NextDb ==
    \/ RunConcurrent \/ ProcessBatch \/ DbResume
    \/ PoolConnect \/ Begin \/ Insert \/ Commit \/ Rollback \/ InsertMessage

\* Write runs against a database adapter whose statements may fail.
DbSpec == InitDb /\ [][NextDb]_vars

\* ------------------------------------------------- the data generator

\* words.join(' ')
RECURSIVE JoinSpace(_)
JoinSpace(words) ==
    IF words = <<>> THEN ""
    ELSE IF Len(words) = 1 THEN words[1]
    ELSE words[1] \o " " \o JoinSpace(Tail(words))

\* What a step of the generator leaves alone.
GenFrame ==
    UNCHANGED <<engine, fault, reporterBatches, latencyReport, reruns, stuck, backend, cli,
                reporter>>

\* generateRandomString: one turn of the while loop, with the word the
\* random generator picks.
PushWord ==
    /\ gen.pc = "loop"
    /\ gen.currentLength < gen.minLength
    /\ \E word \in SampleWords :
          gen' = [gen EXCEPT !.words = Append(@, word),
                             !.currentLength = @ + Len(word) + 1]
    /\ GenFrame

\* generateRandomString: the loop ends and the joined words are returned.
ReturnString ==
    /\ gen.pc = "loop"
    /\ ~(gen.currentLength < gen.minLength)
    /\ gen' = [gen EXCEPT !.pc = "returned", !.string = JoinSpace(gen.words)]
    /\ GenFrame

\* A call generateRandomString(minLength).
InitString ==
    /\ kind = "write"
    /\ config = [totalRecords |-> 0, batchSize |-> 1, totalQueries |-> 0, concurrency |-> 1]
    /\ promise = "none"
    /\ queue = <<>>
    /\ inflight = {}
    /\ completed = 0
    /\ activeTasks = 0
    /\ results = <<>>
    /\ thisResults = InitialResults
    /\ dispatchLog = <<>>
    /\ finalizeCount = 0
    /\ fault = NoFault
    /\ reporterBatches = <<>>
    /\ latencyReport = NoReport
    /\ reporter = NoReporter
    /\ reruns = 0
    /\ stuck = {}
    /\ backend = NoBackend
    /\ \E m \in 0..MaxMinLength :
          gen = [pc |-> "loop", minLength |-> m, words |-> <<>>,
                 currentLength |-> 0, string |-> ""]
    /\ cli = NoCli

NextString == PushWord \/ ReturnString

\* The calls of generateRandomString with a bounded minLength.
StringSpec == InitString /\ [][NextString]_vars

\* ------------------------------------------------ the benchmark command

\* The database types of the CLI.
DatabaseTypes == {"postgres", "mysql"}

\* options.database === 'both' ? ['postgres', 'mysql'] : [options.database]
DatabaseSelections == {<<"postgres">>, <<"mysql">>, <<"postgres", "mysql">>}

\* The database the command is at.
CurrentDb == cli.databases[cli.db]

\* setupDatabases: the end of the body of the for loop, through the try or
\* through the catch, which logs the error: the next database, or back in
\* runBenchmark at the loop of the tests.
SetupNext(c) ==
    IF c.db < Len(c.databases)
    THEN [c EXCEPT !.pc = "setup.connect", !.db = @ + 1]
    ELSE [c EXCEPT !.pc = "test.connect", !.db = 1]

\* runBenchmark: the end of the body of the for loop of the tests, through
\* the try or through the catch: the next database, or the report.
TestNext(c) ==
    IF c.db < Len(c.databases)
    THEN [c EXCEPT !.pc = "test.connect", !.db = @ + 1]
    ELSE [c EXCEPT !.pc = "report"]

\* What a step of the command leaves alone.
CliFrame ==
    UNCHANGED <<engine, fault, reporterBatches, latencyReport, reruns, stuck, backend, gen,
                reporter>>

\* runBenchmark up to the loop of the tests or, with --setup, into
\* setupDatabases({ database, drop: true }).
RunBenchmark ==
    /\ cli.pc = "start"
    /\ cli' = [cli EXCEPT !.pc = IF cli.setup THEN "setup.connect" ELSE "test.connect",
                          !.db = 1]
    /\ CliFrame

\* setupDatabases: createDatabaseConnection(dbType) and await db.connect().
SetupConnect ==
    /\ cli.pc = "setup.connect"
    /\ \E ok \in BOOLEAN :
          cli' = IF ok THEN [cli EXCEPT !.pc = "setup.drop"] ELSE SetupNext(cli)
    /\ CliFrame

\* setupDatabases: await db.dropTable(), DROP TABLE IF EXISTS.
SetupDrop ==
    /\ cli.pc = "setup.drop"
    /\ \E ok \in BOOLEAN :
          cli' = IF ok
                 THEN [cli EXCEPT !.pc = "setup.create", !.tables[CurrentDb] = "dropped"]
                 ELSE SetupNext(cli)
    /\ CliFrame

\* setupDatabases: await db.createTable(), CREATE TABLE IF NOT EXISTS.
SetupCreate ==
    /\ cli.pc = "setup.create"
    /\ \E ok \in BOOLEAN :
          cli' = IF ok
                 THEN [cli EXCEPT !.pc = "setup.close",
                                  !.tables[CurrentDb] = IF @ = "old" THEN "old" ELSE "created"]
                 ELSE SetupNext(cli)
    /\ CliFrame

\* setupDatabases: await db.close().
SetupClose ==
    /\ cli.pc = "setup.close"
    /\ cli' = SetupNext(cli)
    /\ CliFrame

\* runBenchmark: createDatabaseConnection(dbType) and await db.connect().
TestConnect ==
    /\ cli.pc = "test.connect"
    /\ \E ok \in BOOLEAN :
          cli' = IF ok THEN [cli EXCEPT !.pc = "test.write"] ELSE TestNext(cli)
    /\ CliFrame

\* runBenchmark: new WriteTest(db, writeConfig) and await writeTest.run(),
\* which dispatches the write operations.
TestWrite ==
    /\ cli.pc = "test.write"
    /\ cli' = [cli EXCEPT !.pc = "test.read",
                          !.testOps = Append(@, <<CurrentDb, "write">>)]
    /\ CliFrame

\* runBenchmark: new ReadTest(db, readConfig) and await readTest.run(),
\* which dispatches the read operations.
TestRead ==
    /\ cli.pc = "test.read"
    /\ cli' = [cli EXCEPT !.pc = "test.close",
                          !.testOps = Append(@, <<CurrentDb, "read">>)]
    /\ CliFrame

\* runBenchmark: await db.close().
TestClose ==
    /\ cli.pc = "test.close"
    /\ cli' = TestNext(cli)
    /\ CliFrame

\* runBenchmark: reporter.generateCompleteReport().
Report ==
    /\ cli.pc = "report"
    /\ cli' = [cli EXCEPT !.pc = "done"]
    /\ CliFrame

\* The benchmark command given for one or both databases, with or without
\* --setup; the table of a database exists with earlier rows or is absent.
InitCli ==
    /\ kind = "write"
    /\ config = [totalRecords |-> 0, batchSize |-> 1, totalQueries |-> 0, concurrency |-> 1]
    /\ promise = "none"
    /\ queue = <<>>
    /\ inflight = {}
    /\ completed = 0
    /\ activeTasks = 0
    /\ results = <<>>
    /\ thisResults = InitialResults
    /\ dispatchLog = <<>>
    /\ finalizeCount = 0
    /\ fault = NoFault
    /\ reporterBatches = <<>>
    /\ latencyReport = NoReport
    /\ reporter = NoReporter
    /\ reruns = 0
    /\ stuck = {}
    /\ backend = NoBackend
    /\ gen = NoString
    /\ \E setup \in BOOLEAN, databases \in DatabaseSelections,
          tables \in [DatabaseTypes -> {"old", "absent"}] :
          cli = [pc |-> "start", setup |-> setup, databases |-> databases, db |-> 1,
                 tables |-> tables, testOps |-> <<>>]

NextCli ==
    \/ RunBenchmark
    \/ SetupConnect \/ SetupDrop \/ SetupCreate \/ SetupClose
    \/ TestConnect \/ TestWrite \/ TestRead \/ TestClose
    \/ Report

\* The runs of the benchmark command.
CliSpec == InitCli /\ [][NextCli]_vars

\* ------------------------------------------ the comparison reports

\* Sample values of results.tps / results.qps: 0, two positive rates, and
\* the quotients of a run measured at 0 ms, NaN (0 / 0) and Infinity.
SampleRates ==
    {[num |-> 0, den |-> 1], [num |-> 5, den |-> 1], [num |-> 7, den |-> 1],
     [num |-> 0, den |-> 0], [num |-> 1, den |-> 0]}

\* The test types of the reporter.
TestTypes == {"write", "read"}

\* The number is NaN.
IsNaN(r) == r.den = 0 /\ r.num = 0

\* Mutant of Gt: a >= b.
GtOrEqual(a, b) == ~IsNaN(a) /\ ~IsNaN(b) /\ a.num * b.den >= b.num * a.den

\* a > b on numbers: false when either is NaN, Infinity above every finite number.
Gt(a, b) == ~IsNaN(a) /\ ~IsNaN(b) /\ a.num * b.den > b.num * a.den

\* bestTPS and bestDatabase (bestQPS and bestDatabase) after the forEach
\* has visited the first k databases of Object.keys(this.results).
RECURSIVE BestUpTo(_, _, _)
BestUpTo(rs, type, k) ==
    IF k = 0 THEN [rate |-> [num |-> 0, den |-> 1], db |-> ""]
    ELSE LET prev == BestUpTo(rs, type, k - 1)
             r    == rs[k][type]
         IN IF r # <<>> /\ Gt(r[1], prev.rate)
            THEN [rate |-> r[1], db |-> rs[k].db]
            ELSE prev

\* The database generateWriteComparison / generateReadComparison announces
\* as best performer, "" when it announces none: it returns at once with
\* fewer than 2 databases, and announces only a bestDatabase that is set.
BestPerformer(rs, type) ==
    IF Len(rs) < 2 THEN "" ELSE BestUpTo(rs, type, Len(rs)).db

\* What a step of the reporter leaves alone.
ReporterFrame ==
    UNCHANGED <<engine, fault, reporterBatches, latencyReport, reruns, stuck, backend, gen, cli>>

\* The body the two comparison reports share: the best performer of the
\* type is worked out and announced.
GenerateComparison(type) ==
    /\ reporter' = [reporter EXCEPT !.compared = @ \cup {type},
                                    !.best[type] = BestPerformer(reporter.results, type)]
    /\ ReporterFrame

\* generateWriteComparison, called once per report.
GenerateWriteComparison ==
    /\ "write" \notin reporter.compared
    /\ GenerateComparison("write")

\* generateReadComparison, called once per report.
GenerateReadComparison ==
    /\ "read" \notin reporter.compared
    /\ GenerateComparison("read")

\* The results of a run as the reporter holds them: absent, or with a rate.
SampleResults == {<<>>} \cup {<<r>> : r \in SampleRates}

\* this.results[dbName] after addResults: results of one type at least.
SampleEntries(db) ==
    {[db |-> db, write |-> w, read |-> r] :
        w \in SampleResults, r \in SampleResults} \ {[db |-> db, write |-> <<>>, read |-> <<>>]}

\* A reporter that has been given results of no, one or both databases, in
\* either order.
InitCompare ==
    /\ kind = "write"
    /\ config = [totalRecords |-> 0, batchSize |-> 1, totalQueries |-> 0, concurrency |-> 1]
    /\ promise = "none"
    /\ queue = <<>>
    /\ inflight = {}
    /\ completed = 0
    /\ activeTasks = 0
    /\ results = <<>>
    /\ thisResults = InitialResults
    /\ dispatchLog = <<>>
    /\ finalizeCount = 0
    /\ fault = NoFault
    /\ reporterBatches = <<>>
    /\ latencyReport = NoReport
    /\ reruns = 0
    /\ stuck = {}
    /\ backend = NoBackend
    /\ gen = NoString
    /\ cli = NoCli
    /\ \E rs \in {<<>>}
                 \cup {<<a>> : a \in UNION {SampleEntries(db) : db \in DatabaseTypes}}
                 \cup {<<a, b>> : a \in SampleEntries("postgres"), b \in SampleEntries("mysql")}
                 \cup {<<b, a>> : a \in SampleEntries("postgres"), b \in SampleEntries("mysql")} :
          reporter = [NoReporter EXCEPT !.results = rs]

NextCompare == GenerateWriteComparison \/ GenerateReadComparison

\* The comparison reports of the reporter on every sample of results.
CompareSpec == InitCompare /\ [][NextCompare]_vars

\* ------------------------------------------------ the commands of the CLI

\* The commands of the CLI that open database connections.
Commands == {"setup", "write", "read", "benchmark"}

\* The tests a command runs on each database, in order.
Tests(command) ==
    IF command = "write" THEN <<"write">>
    ELSE IF command = "read" THEN <<"read">>
    ELSE IF command = "benchmark" THEN <<"write", "read">>
    ELSE <<>>

\* The database the loop of the command is at.
CommandDb == cli.databases[cli.db]

\* The end of the body of the for loop over the databases: the next
\* database; after the last one, setupDatabases returns, to the loop of the
\* tests when runBenchmark called it, and a test loop goes on to the report.
LoopNext(c) ==
    IF c.db < Len(c.databases) THEN [c EXCEPT !.pc = "create", !.db = @ + 1]
    ELSE IF c.phase = "setup"
         THEN IF c.command = "benchmark"
              THEN [c EXCEPT !.phase = "test", !.pc = "create", !.db = 1]
              ELSE [c EXCEPT !.pc = "done"]
         ELSE [c EXCEPT !.pc = "report"]

\* Mutant of Catch: the error leaves the loop and ends the command.
CatchRethrow(c) ==
    [c EXCEPT !.failed = @ \cup {<<c.phase, c.databases[c.db]>>}, !.pc = "done"]

\* The catch block of the loop body: it logs the error, and the loop goes
\* on; the connection pool is left as it is.
Catch(c) ==
    LoopNext([c EXCEPT !.failed = @ \cup {<<c.phase, c.databases[c.db]>>}])

\* PerformanceReporter.addResults(dbName, testType, results).
AddResults(rs, db, type, res) ==
    IF \E k \in 1..Len(rs) : rs[k].db = db
    THEN [k \in 1..Len(rs) |-> IF rs[k].db = db THEN [rs[k] EXCEPT ![type] = res] ELSE rs[k]]
    ELSE Append(rs, [[db |-> db, write |-> <<>>, read |-> <<>>] EXCEPT ![type] = res])

\* What a step of a command leaves alone, the reporter apart.
CommandFrame ==
    UNCHANGED <<engine, fault, reporterBatches, latencyReport, reruns, stuck, backend, gen>>

\* await createDatabaseConnection(dbType): it throws when the connection
\* string is not in the environment (or, for mysql, is not a URL), else the
\* constructor of the adapter creates the connection pool.
CreateDatabaseConnection ==
    /\ cli.pc = "create"
    /\ LET c == [cli EXCEPT !.attempted[cli.phase] = Append(@, CommandDb)]
       IN \E ok \in BOOLEAN :
             cli' = IF ok
                    THEN [c EXCEPT !.pc = "connect", !.pools = Append(@, "open")]
                    ELSE Catch(c)
    /\ UNCHANGED reporter
    /\ CommandFrame

\* await db.connect(): a connection is taken from the pool and released, or
\* the error of the pool is thrown again.
Connect ==
    /\ cli.pc = "connect"
    /\ \E ok \in BOOLEAN :
          cli' = IF ~ok THEN Catch(cli)
                 ELSE IF cli.phase = "test" THEN [cli EXCEPT !.pc = "run", !.test = 1]
                 ELSE IF cli.drop \/ cli.command = "benchmark" THEN [cli EXCEPT !.pc = "drop"]
                 ELSE [cli EXCEPT !.pc = "createTable"]
    /\ UNCHANGED reporter
    /\ CommandFrame

\* setupDatabases: await db.dropTable().
DropTable ==
    /\ cli.pc = "drop"
    /\ \E ok \in BOOLEAN :
          cli' = IF ok THEN [cli EXCEPT !.pc = "createTable"] ELSE Catch(cli)
    /\ UNCHANGED reporter
    /\ CommandFrame

\* setupDatabases: await db.createTable().
CreateTable ==
    /\ cli.pc = "createTable"
    /\ \E ok \in BOOLEAN :
          cli' = IF ok THEN [cli EXCEPT !.pc = "close"] ELSE Catch(cli)
    /\ UNCHANGED reporter
    /\ CommandFrame

\* new WriteTest(db, config) / new ReadTest(db, config), await test.run()
\* and reporter.addResults(dbType, type, results); a rejected run goes to
\* the catch block.
RunTest ==
    /\ cli.pc = "run"
    /\ LET type == Tests(cli.command)[cli.test]
       IN \/ \E r \in SampleRates :
                /\ reporter' = [reporter EXCEPT
                                   !.results = AddResults(@, CommandDb, type, <<r>>)]
                /\ cli' = IF cli.test < Len(Tests(cli.command))
                          THEN [cli EXCEPT !.test = @ + 1]
                          ELSE [cli EXCEPT !.pc = "close"]
          \/ /\ cli' = Catch(cli)
             /\ UNCHANGED reporter
    /\ CommandFrame

\* await db.close(), the last statement of the try block: pool.end().
Close ==
    /\ cli.pc = "close"
    /\ cli' = LoopNext([cli EXCEPT !.pools[Len(cli.pools)] = "closed"])
    /\ UNCHANGED reporter
    /\ CommandFrame

\* The report is due: runBenchmark always calls generateCompleteReport,
\* runWriteTest and runReadTest compare when databases.length > 1.
ReportDue(c) == c.command = "benchmark" \/ Len(c.databases) > 1

\* The comparisons the report of the command makes.
Comparisons(c) == IF ReportDue(c) THEN Range(Tests(c.command)) ELSE {}

\* The statements after the loop of the tests: generateWriteComparison,
\* generateReadComparison or generateCompleteReport.
GenerateReport ==
    /\ cli.pc = "report"
    /\ cli' = [cli EXCEPT !.reported = ReportDue(cli),
                          !.pc = IF cli.command = "benchmark" /\ cli.export
                                 THEN "export" ELSE "done"]
    /\ reporter' = [reporter EXCEPT
                       !.compared = @ \cup Comparisons(cli),
                       !.best = [type \in TestTypes |->
                                   IF type \in Comparisons(cli)
                                   THEN BestPerformer(reporter.results, type)
                                   ELSE @[type]]]
    /\ CommandFrame

\* runBenchmark: reporter.exportToJSON(options.export).
ExportToJSON ==
    /\ cli.pc = "export"
    /\ cli' = [cli EXCEPT !.exported = TRUE, !.pc = "done"]
    /\ UNCHANGED reporter
    /\ CommandFrame

\* A command at its first database: setup with or without --drop, write,
\* read, or benchmark with or without --setup and --export.
InitCommand ==
    /\ kind = "write"
    /\ config = [totalRecords |-> 0, batchSize |-> 1, totalQueries |-> 0, concurrency |-> 1]
    /\ promise = "none"
    /\ queue = <<>>
    /\ inflight = {}
    /\ completed = 0
    /\ activeTasks = 0
    /\ results = <<>>
    /\ thisResults = InitialResults
    /\ dispatchLog = <<>>
    /\ finalizeCount = 0
    /\ fault = NoFault
    /\ reporterBatches = <<>>
    /\ latencyReport = NoReport
    /\ reporter = NoReporter
    /\ reruns = 0
    /\ stuck = {}
    /\ backend = NoBackend
    /\ gen = NoString
    /\ \E command \in Commands, databases \in DatabaseSelections,
          setup \in BOOLEAN, drop \in BOOLEAN, export \in BOOLEAN :
          /\ setup => command = "benchmark"
          /\ export => command = "benchmark"
          /\ drop => command = "setup"
          /\ cli = [pc |-> "create", command |-> command, databases |-> databases,
                    setup |-> setup, drop |-> drop, export |-> export,
                    phase |-> IF command = "setup" \/ setup THEN "setup" ELSE "test",
                    db |-> 1, test |-> 1, pools |-> <<>>,
                    attempted |-> [setup |-> <<>>, test |-> <<>>],
                    failed |-> {}, reported |-> FALSE, exported |-> FALSE]

NextCommand ==
    \/ CreateDatabaseConnection \/ Connect
    \/ DropTable \/ CreateTable
    \/ RunTest \/ Close
    \/ GenerateReport \/ ExportToJSON

\* The runs of the setup, write, read and benchmark commands.
CommandSpec == InitCommand /\ [][NextCommand]_vars

\* ---------------------------------------------- derived quantities

\* Effective concurrency.
Effective == Min(concurrency, total)

\* How often index i has been dispatched to the backend.
Attempts(i) == Cardinality({n \in 1..Len(dispatchLog) : dispatchLog[n].idx = i})

\* Index i of lane l is queued, in flight, or has produced its record.
InSystem(i, l) ==
    \/ \E x \in Range(queue) \cup inflight : x.idx = i /\ x.lane = l
    \/ \E r \in Range(results) : r.idx = i /\ r.lane = l

\* Index i of lane l has produced its record.
Produced(i, l) == \E r \in Range(results) : r.idx = i /\ r.lane = l

FailedRecords == {n \in 1..Len(results) : ~results[n].success}

SuccessfulRecords == {n \in 1..Len(results) : results[n].success}

\* The sum of recordCount over the successful ones of the first k records.
RECURSIVE SuccessUnitsUpTo(_)
SuccessUnitsUpTo(k) ==
    IF k = 0 THEN 0
    ELSE SuccessUnitsUpTo(k - 1)
           + (IF results[k].success THEN results[k].recordCount ELSE 0)

\* The sum of latency over the successful ones of the first k records.
RECURSIVE SuccessLatencyUpTo(_)
SuccessLatencyUpTo(k) ==
    IF k = 0 THEN 0
    ELSE SuccessLatencyUpTo(k - 1)
           + (IF results[k].success THEN results[k].latency ELSE 0)

\* The latencies of all records produced.
AllLatencies == {results[n].latency : n \in 1..Len(results)}

\* ------------------------------------------------------------ claims

\* C1: when the run resolves, every index 0..T-1 has been attempted exactly
\* once and successCount + errorCount = T; no index is ever attempted twice
\* and no index outside 0..T-1 is attempted.
C1_EachIndexOnce ==
    /\ \A d \in Range(dispatchLog) : d.idx \in 0..(total - 1) /\ Attempts(d.idx) = 1
    /\ promise = "resolved" =>
          /\ \A i \in 0..(total - 1) : Attempts(i) = 1
          /\ completed + thisResults.errors = total

C1_Witness ==
    /\ promise = "resolved"
    /\ total = 3 /\ concurrency = 2
    /\ completed = 2 /\ thisResults.errors = 1

\* C2: the number of operations in flight is activeTasks, it is never
\* negative and never more than min(C, T).
C2_InFlightBounded ==
    total >= 1 =>
        /\ activeTasks = Cardinality(inflight)
        /\ activeTasks >= 0
        /\ activeTasks <= Min(concurrency, total)

C2_Witness ==
    /\ concurrency = 2 /\ total = 3
    /\ activeTasks = 2
    /\ Len(results) = 1

\* C3: the run has resolved exactly when the number of produced records
\* equals total (it resolves in the step that produces the last record);
\* then nothing is in flight, and the finalize-and-resolve block has run
\* exactly once; it never runs more than once.
C3_ResolvedAtLastRecord ==
    total >= 1 =>
        /\ (promise = "resolved") <=> (promise # "none" /\ Len(results) = total)
        /\ promise = "resolved" =>
              inflight = {} /\ activeTasks = 0 /\ finalizeCount = 1
        /\ promise # "resolved" => finalizeCount = 0

C3_Witness ==
    /\ promise = "resolved"
    /\ concurrency = 1 /\ total = 3
    /\ Len(results) = 3 /\ finalizeCount = 1

\* C4: a started run with total >= 1 is eventually resolved, provided
\* every queued callback is eventually run and every backend call settles.
C4_EventuallyResolved ==
    (promise = "pending" /\ total >= 1) ~> (promise = "resolved")

C4_Witness ==
    /\ promise = "resolved"
    /\ total = 3 /\ concurrency = 2
    /\ thisResults.errors = 2 /\ completed = 1

\* C5: a failure does not stop its lane nor abort the run: every produced
\* record, failed or not, whose index k has k + stride < total is followed
\* in its lane by index k + stride (queued, in flight or produced); the run
\* is never rejected; the error tally is the number of failure records.
C5_FailureKeepsLane ==
    /\ promise # "rejected"
    /\ thisResults.errors = Cardinality(FailedRecords)
    /\ \A r \in Range(results) :
          r.idx + Effective < total => InSystem(r.idx + Effective, r.lane)

C5_Witness ==
    \E r \in Range(results), d \in Range(dispatchLog) :
        /\ ~r.success
        /\ d.idx = r.idx + Effective
        /\ d.lane = r.lane

\* C6: with E = min(C, T), every dispatched index j is dispatched by lane
\* j mod E, and at resolution lane i has attempted exactly the indices
\* i, i+E, i+2E, ... below T.
C6_Striping ==
    total >= 1 =>
        /\ \A d \in Range(dispatchLog) :
              d.lane \in 0..(Effective - 1) /\ d.lane = d.idx % Effective
        /\ promise = "resolved" =>
              \A i \in 0..(Effective - 1) :
                  {d.idx : d \in {x \in Range(dispatchLog) : x.lane = i}}
                    = {j \in 0..(total - 1) : j % Effective = i}

C6_Witness ==
    /\ promise = "resolved"
    /\ total = 3 /\ concurrency = 2
    /\ \E d \in Range(dispatchLog) : d.idx = 2 /\ d.lane = 0

\* C7: a lane never has more than one operation in flight, and an index
\* k + C is dispatched only after index k of the same lane has been
\* dispatched and has produced its record.
C7_LaneSequential ==
    /\ \A e1, e2 \in inflight : e1.lane = e2.lane => e1 = e2
    /\ \A n \in 1..Len(dispatchLog) :
          LET d == dispatchLog[n] IN
          d.idx >= concurrency =>
              /\ Produced(d.idx - concurrency, d.lane)
              /\ \E m \in 1..(n - 1) :
                    /\ dispatchLog[m].idx = d.idx - concurrency
                    /\ dispatchLog[m].lane = d.lane

C7_Witness ==
    /\ concurrency = 1 /\ total = 3
    /\ Len(dispatchLog) = 3
    /\ Len(results) = 2

\* C8: when every backend operation of a run has failed, the run has
\* resolved with errorCount = T, successCount = 0, no processed unit,
\* avgLatency = 0 and one record for each operation.
C8_AllFailure ==
    (/\ total >= 1
     /\ Len(results) = total
     /\ \A r \in Range(results) : ~r.success) =>
        /\ promise = "resolved"
        /\ thisResults.errors = total
        /\ completed = 0
        /\ thisResults.units = 0
        /\ thisResults.avgLatency.num = 0
        /\ Len(thisResults.records) = total

C8_Witness ==
    /\ promise = "resolved"
    /\ total = 3 /\ concurrency = 2
    /\ thisResults.errors = 3
    /\ thisResults.minLatency = 5

\* C9: when concurrency > total >= 1, exactly T lanes are started, each
\* attempts only its first index and no second index is ever queued, and
\* the run has resolved exactly when T records have been produced.
C9_Oversubscribed ==
    (concurrency > total /\ total >= 1 /\ promise # "none") =>
        /\ {x.lane : x \in Range(queue) \cup inflight}
             \cup {r.lane : r \in Range(results)} = 0..(total - 1)
        /\ \A x \in Range(queue) \cup inflight : x.idx = x.lane
        /\ \A d \in Range(dispatchLog) : d.idx = d.lane /\ Attempts(d.idx) = 1
        /\ (promise = "resolved") <=> (Len(results) = total)

C9_Witness ==
    /\ promise = "resolved"
    /\ total = 1 /\ concurrency = MaxConcurrency
    /\ Len(results) = 1 /\ Len(dispatchLog) = 1

\* C10: a run started with total <= 0 fails with an error (its promise is
\* rejected) before any operation is dispatched.
C10_RefusesToRun ==
    (promise # "none" /\ total <= 0) => (promise = "rejected" /\ dispatchLog = <<>>)

\* C11: once a statement of the scheduler or aggregator has thrown, while
\* dispatching an index or handling a produced record, the run has been
\* aborted (its promise rejected, or the process ended) and the fault is not
\* counted in the error tally, which stays the number of failure records.
C11_FaultAbortsRun ==
    (fault.handler + fault.dispatch > 0) =>
        /\ promise = "rejected" \/ fault.exited
        /\ thisResults.errors = Cardinality(FailedRecords)

\* C12: every record of a failed backend call, of the write and of the read
\* executor, has success = false, recordCount = 0, an error message and a
\* latency; and a record has an error exactly when it is not successful.
C12_FailureRecord ==
    \A r \in Range(results) :
        /\ ~r.success => (r.recordCount = 0 /\ r.error = "message" /\ r.latency \in Latencies)
        /\ (r.error = "message") <=> ~r.success

\* C13: no exception escapes the executor, whatever the backend call does;
\* the record list has one record for each counted operation, and at
\* resolution exactly one record for each index 0..T-1.
C13_ExecutorAlwaysReturnsRecord ==
    /\ fault.executor = 0
    /\ Len(results) = completed + thisResults.errors
    /\ promise = "resolved" =>
          \A i \in 0..(total - 1) :
              Cardinality({n \in 1..Len(results) : results[n].idx = i}) = 1

\* C14: at resolution of a write run with a wall-clock time above 0, tps is
\* totalUnits / totalTime * 1000, totalUnits being the sum of recordCount
\* over the successful records only; and the finalize block gives 500 for
\* 1000 units (100 operations of 10 units) at totalTime = 2000.
C14_WriteRate ==
    (kind = "write" /\ promise = "resolved") =>
        /\ thisResults.units = SuccessUnitsUpTo(Len(results))
        /\ thisResults.totalTime > 0 =>
              /\ thisResults.rate.den # 0
              /\ thisResults.rate.num * thisResults.totalTime
                   = 1000 * SuccessUnitsUpTo(Len(results)) * thisResults.rate.den
        /\ LET r == Finalize([InitialResults EXCEPT !.units = 1000], <<>>, 0, 2000).rate
           IN r.den # 0 /\ r.num = 500 * r.den

C14_Witness ==
    /\ kind = "write" /\ promise = "resolved"
    /\ config.batchSize = 2 /\ config.totalRecords = 3
    /\ thisResults.totalTime = 5
    /\ thisResults.units = 2 /\ thisResults.errors = 1

\* C15: when the measured wall-clock time of a resolved run is 0, the
\* reported rate (tps, qps) is 0.
C15_ZeroTimeZeroRate ==
    (promise = "resolved" /\ thisResults.totalTime = 0) =>
        (thisResults.rate.den # 0 /\ thisResults.rate.num = 0)

\* C16: at resolution of a read run, results.totalQueries is the configured
\* total, whatever the mix of successful and failed queries.
C16_TotalQueriesIsTotal ==
    (kind = "read" /\ promise = "resolved") => thisResults.totalQueries = total

\* C17: at resolution avgLatency is the arithmetic mean of the latencies of
\* the successful records of the run, and 0 when there is none.
C17_AvgLatency ==
    promise = "resolved" =>
        /\ thisResults.avgLatency.den # 0
        /\ IF SuccessfulRecords = {}
           THEN thisResults.avgLatency.num = 0
           ELSE thisResults.avgLatency.num * Cardinality(SuccessfulRecords)
                  = SuccessLatencyUpTo(Len(results)) * thisResults.avgLatency.den

C17_Witness ==
    /\ promise = "resolved"
    /\ thisResults.avgLatency = [num |-> 5, den |-> 2]
    /\ \E n \in FailedRecords : results[n].latency = 5

\* C18: at resolution of a run with total >= 1, minLatency is the minimum
\* and maxLatency the maximum of the latencies of all records produced,
\* successful and failed alike.
C18_LatencyExtremes ==
    (promise = "resolved" /\ total >= 1) =>
        /\ thisResults.minLatency \in AllLatencies
        /\ thisResults.maxLatency \in AllLatencies
        /\ \A l \in AllLatencies :
              thisResults.minLatency <= l /\ l <= thisResults.maxLatency

C18_Witness ==
    /\ promise = "resolved"
    /\ thisResults.minLatency = 5 /\ thisResults.maxLatency = 5
    /\ Len(results) = 3
    /\ thisResults.errors = 2

\* The percentiles computed, in the order they are printed.
PercentileRanks == <<50, 95, 99>>

\* The successful records given to the reporter.
ReportSuccesses == {n \in 1..Len(reporterBatches) : reporterBatches[n].success}

\* How many successful latencies are below v, and how many are at most v.
CountBelow(v) ==
    Cardinality({n \in ReportSuccesses : reporterBatches[n].latency < v})
CountAtMost(v) ==
    Cardinality({n \in ReportSuccesses : reporterBatches[n].latency <= v})

\* C19: with n >= 1 successful latencies, each percentile p of 0.50, 0.95,
\* 0.99 is the value of rank floor(n * p), clamped to [0, n-1], in the
\* ascending order of the successful latencies only; floor(n * p) is itself
\* within [0, n-1]; for the latencies 10, 20, 30, 40, 50, p50 = 30 and p99 = 50.
C19_Percentiles ==
    (latencyReport.done /\ ReportSuccesses # {}) =>
        LET n == Cardinality(ReportSuccesses) IN
        /\ Len(latencyReport.percentiles) = 3
        /\ \A k \in 1..3 :
              LET floorIdx == (n * PercentileRanks[k]) \div 100
                  idx      == Min(Max(floorIdx, 0), n - 1)
                  v        == latencyReport.percentiles[k]
              IN /\ floorIdx \in 0..(n - 1)
                 /\ CountBelow(v) <= idx
                 /\ idx < CountAtMost(v)
        /\ (n = 5 /\ {reporterBatches[j].latency : j \in ReportSuccesses} = ReportLatencies) =>
              /\ latencyReport.percentiles[1] = 30
              /\ latencyReport.percentiles[3] = 50

C19_Witness ==
    /\ latencyReport.done
    /\ reporterBatches = [i \in 1..5 |->
                             [latency |-> <<50, 10, 40, 20, 30>>[i], success |-> TRUE]]
    /\ latencyReport.percentiles = <<30, 50, 50>>

\* C20 as claimed: with no successful record the percentiles are
\* p50 = p95 = p99 = 0.
C20_ZeroPercentiles ==
    (latencyReport.done /\ ReportSuccesses = {}) =>
        latencyReport.percentiles = <<0, 0, 0>>

\* C20, amended: with no successful record the latency analysis computes
\* and prints no percentile at all.
C20_NoPercentiles ==
    (latencyReport.done /\ ReportSuccesses = {}) =>
        latencyReport.percentiles = <<>>

C20_Witness ==
    /\ latencyReport.done
    /\ Len(reporterBatches) = 2
    /\ ReportSuccesses = {}
    /\ latencyReport.percentiles = <<>>

\* C21: when the run operation is called again on an instance whose first
\* run has resolved, the later run attempts every index exactly once before
\* it resolves, and its record list, counts, error tally, latency extremes
\* and average are those of its own records, as on a fresh instance.
C21_SecondRunFresh ==
    (reruns >= 1 /\ promise = "resolved") =>
        /\ \A i \in 0..(total - 1) : Attempts(i) = 1
        /\ Len(results) = total
        /\ thisResults.records = results
        /\ thisResults.errors = Cardinality(FailedRecords)
        /\ thisResults.units = SuccessUnitsUpTo(Len(results))
        /\ thisResults.minLatency \in AllLatencies
        /\ thisResults.maxLatency \in AllLatencies
        /\ \A l \in AllLatencies :
              thisResults.minLatency <= l /\ l <= thisResults.maxLatency
        /\ IF SuccessfulRecords = {}
           THEN thisResults.avgLatency.num = 0
           ELSE thisResults.avgLatency.num * Cardinality(SuccessfulRecords)
                  = SuccessLatencyUpTo(Len(results)) * thisResults.avgLatency.den

\* The number of records of the batches 0..k-1.
RECURSIVE BatchRecordsUpTo(_)
BatchRecordsUpTo(k) ==
    IF k = 0 THEN 0 ELSE BatchRecordsUpTo(k - 1) + actualBatchSize(k - 1)

\* C22: a write run of R >= 1 records in batches of B >= 1 uses ceil(R / B)
\* batches, each of 1 to B records, R records in all; when every batch has
\* succeeded the resolved run reports totalRecords = R.
C22_BatchPartition ==
    (kind = "write" /\ config.totalRecords >= 1) =>
        /\ (total - 1) * config.batchSize < config.totalRecords
        /\ config.totalRecords <= total * config.batchSize
        /\ \A i \in 0..(total - 1) : actualBatchSize(i) \in 1..config.batchSize
        /\ BatchRecordsUpTo(total) = config.totalRecords
        /\ (promise = "resolved" /\ thisResults.errors = 0) =>
              thisResults.units = config.totalRecords

C22_Witness ==
    /\ kind = "write" /\ promise = "resolved"
    /\ config.totalRecords = 3 /\ config.batchSize = 2
    /\ thisResults.errors = 0
    /\ thisResults.units = 3
    /\ Len(results) = 2

\* The batches whose backend call the run has.
Batches == DOMAIN backend.calls

\* The backend calls that have returned or thrown.
Settled == {i \in Batches : Call(i).pc \in {"returned", "threw"}}

\* C23: insertBatch is all-or-nothing: when it returns, every record of the
\* batch is persisted and the number of records of the batch is returned;
\* when a statement of the transaction fails, it throws a backend error and
\* no record of the batch is persisted; nothing is persisted before.
C23_AllOrNothing ==
    backend.useBatchInsert =>
        \A i \in Batches :
            /\ Call(i).pc = "returned" =>
                  /\ Call(i).persisted = actualBatchSize(i)
                  /\ Call(i).value = actualBatchSize(i)
                  /\ Call(i).error = "none"
            /\ Call(i).pc = "threw" =>
                  /\ Call(i).persisted = 0
                  /\ Call(i).error \in {"connect", "statement", "rollback"}
            /\ i \notin Settled => Call(i).persisted = 0

C23_Witness ==
    /\ backend.useBatchInsert
    /\ \E i, j \in Batches :
          /\ Call(i).pc = "threw" /\ Call(i).done = 1 /\ Call(i).error = "statement"
          /\ Call(j).pc = "returned" /\ Call(j).persisted = 2

\* C24: the string generateRandomString(minLength) returns is at least
\* minLength characters long, whatever words the random generator picks.
C24_MinLength ==
    gen.pc = "returned" => Len(gen.string) >= gen.minLength

\* C25: in the benchmark command with --setup, when the first test
\* operation of any database is dispatched the table of every selected
\* database has been set up: dropped, then created.
C25_SetupBeforeTests ==
    (cli.setup /\ cli.testOps # <<>>) =>
        \A k \in 1..Len(cli.databases) : cli.tables[cli.databases[k]] = "created"

\* C26: once the promise of a run of a fresh instance has resolved, no
\* callback is queued, no operation is in flight, the result has been made
\* once, and no later step dispatches an operation or changes a field of
\* the result object or the record list.
C26_ResultImmutable ==
    /\ [](promise = "resolved" =>
            queue = <<>> /\ inflight = {} /\ finalizeCount = 1)
    /\ [][promise = "resolved" =>
            UNCHANGED <<promise, thisResults, results, dispatchLog, inflight>>]_vars

C26_Witness ==
    /\ promise = "resolved"
    /\ concurrency = 2
    /\ Len(results) = 3
    /\ thisResults.errors = 1
    /\ thisResults.records = results

\* The indices after e.idx that are assigned to the lane of e.
RemainingOf(e) == {i \in (e.idx + 1)..(total - 1) : (i - e.idx) % concurrency = 0}

\* The indices assigned to the lanes other than that of e.
OthersOf(e) == {i \in 0..(total - 1) : (i - e.idx) % concurrency # 0}

\* C27: when a dispatched backend call never settles the promise of the run
\* is never resolved, no lane ever attempts the remaining indices of the
\* stuck lane, and every other lane comes to attempt all of its indices.
C27_NoTimeout ==
    /\ [](\A e \in stuck :
            /\ promise = "pending"
            /\ e \in inflight
            /\ \A i \in RemainingOf(e) : Attempts(i) = 0)
    /\ (stuck # {}) ~>
          (stuck # {} /\ \A e \in stuck : \A i \in OthersOf(e) : Attempts(i) = 1)

C27_Witness ==
    /\ stuck = {[idx |-> 0, lane |-> 0]}
    /\ config.concurrency = 2 /\ total = 3
    /\ Len(results) = 1 /\ results[1].idx = 1
    /\ queue = <<>>
    /\ promise = "pending"

\* C28: the callbacks of the first indices of all min(C, T) lanes are
\* queued together when the run starts and are served, in order, before any
\* rescheduled callback: no lane dispatches its second index before every
\* lane has dispatched its first, even when a backend call has settled in
\* between.
C28_StartCondition ==
    LET lanes == Min(concurrency, total) IN
    /\ (promise = "pending" /\ dispatchLog = <<>> /\ results = <<>>) =>
          queue = [n \in 1..Max(0, lanes) |-> [idx |-> n - 1, lane |-> n - 1]]
    /\ \A n \in 1..Len(dispatchLog) :
          /\ n <= lanes => dispatchLog[n].idx = n - 1
          /\ dispatchLog[n].idx >= concurrency => n > lanes

C28_Witness ==
    /\ concurrency = 2 /\ total = 3
    /\ Len(dispatchLog) = 1
    /\ Len(results) = 1 /\ results[1].idx = 0
    /\ Len(queue) = 2 /\ queue[1].idx = 1 /\ queue[2].idx = 2

\* The rows the backend has persisted during the run.
RECURSIVE PersistedUpTo(_)
PersistedUpTo(k) == IF k = 0 THEN 0 ELSE PersistedUpTo(k - 1) + Call(k - 1).persisted
PersistedRows == PersistedUpTo(Cardinality(Batches))

\* C29: at resolution of a write run results.totalRecords is the number of
\* rows the backend has persisted during the run, in both insert modes.
C29_TotalRecordsPersisted ==
    promise = "resolved" => thisResults.units = PersistedRows

\* The batch operations in flight that hold or await a connection.
InFlightBatchOps == {e \in inflight : e.idx \notin Settled}

\* C30: every connection insertBatch acquires is released exactly once on
\* every path, so the connections checked out are never more than the batch
\* operations in flight, and none once the run has resolved.
C30_ConnectionsReleased ==
    backend.useBatchInsert =>
        /\ \A i \in Batches :
              /\ Call(i).released <= Call(i).acquired
              /\ i \in Settled => Call(i).released = Call(i).acquired
        /\ backend.checkedOut <= Cardinality(InFlightBatchOps)
        /\ promise = "resolved" => backend.checkedOut = 0

C30_Witness ==
    /\ backend.useBatchInsert
    /\ promise = "resolved"
    /\ \E i, j, k \in Batches :
          /\ Call(i).error = "rollback" /\ Call(i).released = 1
          /\ Call(j).error = "statement" /\ Call(j).released = 1
          /\ Call(k).pc = "returned" /\ Call(k).released = 1

\* C34: at resolution of a run of a fresh instance with at least one
\* successful record, minLatency <= avgLatency <= maxLatency and minLatency
\* is finite, no longer the initial Infinity.
C34_LatencyOrder ==
    (promise = "resolved" /\ SuccessfulRecords # {}) =>
        /\ thisResults.minLatency < Infinity
        /\ thisResults.avgLatency.den > 0
        /\ thisResults.minLatency * thisResults.avgLatency.den <= thisResults.avgLatency.num
        /\ thisResults.avgLatency.num <= thisResults.maxLatency * thisResults.avgLatency.den

C34_Witness ==
    /\ promise = "resolved"
    /\ thisResults.minLatency = 0
    /\ thisResults.avgLatency = [num |-> 5, den |-> 1]
    /\ thisResults.maxLatency = 5
    /\ thisResults.errors = 1

\* C31: failure isolation between databases in the write, read and
\* benchmark commands: when the command is done every selected database has
\* been taken up by the loop of the tests, whatever failed before it, the
\* report has run where the command makes one and the export where it was
\* asked for, and no step ever changes or removes results the reporter
\* has been given for another database.
C31_FailureIsolation ==
    /\ []((cli.pc = "done" /\ cli.command # "setup") =>
             /\ cli.attempted.test = cli.databases
             /\ cli.reported = ReportDue(cli)
             /\ cli.export => cli.exported)
    /\ [][\A k \in 1..Len(reporter.results) :
             /\ Len(reporter'.results) >= k
             /\ reporter'.results[k].db = reporter.results[k].db
             /\ (cli.pc = "done" \/ reporter.results[k].db # CommandDb) =>
                    reporter'.results[k] = reporter.results[k]]_vars

\* The benchmark of both databases is done: the tests of postgres failed
\* after its write results were added, mysql was tested all the same and
\* has both results, and the report and the export have run.
C31_Witness ==
    /\ cli.pc = "done"
    /\ cli.command = "benchmark"
    /\ cli.failed = {<<"test", "postgres">>}
    /\ Len(reporter.results) = 2
    /\ reporter.results[1].db = "postgres"
    /\ reporter.results[1].write # <<>>
    /\ reporter.results[1].read = <<>>
    /\ reporter.results[2].db = "mysql"
    /\ reporter.results[2].write # <<>>
    /\ reporter.results[2].read # <<>>
    /\ cli.reported
    /\ cli.exported

\* C32: every connection pool a command has created is closed once the
\* command has finished processing its database: a pool is open only while
\* the try block of its database is running.
C32_PoolsClosed ==
    \A i \in 1..Len(cli.pools) :
        cli.pools[i] = "open" =>
            /\ i = Len(cli.pools)
            /\ cli.pc \in {"connect", "drop", "createTable", "run", "close"}

\* The rate a is a number greater than the number b.
Exceeds(a, b) == a # [num |-> 0, den |-> 0] /\ b # [num |-> 0, den |-> 0] /\ a.num * b.den > b.num * a.den

\* The rates a and b are the same number.
SameRate(a, b) == a # [num |-> 0, den |-> 0] /\ b # [num |-> 0, den |-> 0] /\ a.num * b.den = b.num * a.den

\* The positions of the databases that have results of the type.
WithResults(type) == {k \in 1..Len(reporter.results) : reporter.results[k][type] # <<>>}

\* C33: the database a comparison report announces as best write (read)
\* performer has write (read) results, its tps (qps) is greater than 0, no
\* other database with such results has a greater rate, no database before
\* it has the same rate (the first database wins ties), and no best
\* performer is announced when no database has a rate greater than 0. A
\* rate that is NaN is a number neither greater nor smaller than any other.
C33_BestPerformer ==
    \A type \in reporter.compared :
        LET rs   == reporter.results
            best == reporter.best[type]
        IN /\ best # "" =>
                \E k \in WithResults(type) :
                    /\ rs[k].db = best
                    /\ Exceeds(rs[k][type][1], [num |-> 0, den |-> 1])
                    /\ \A j \in WithResults(type) \ {k} : ~Exceeds(rs[j][type][1], rs[k][type][1])
                    /\ \A j \in WithResults(type) : j < k => ~SameRate(rs[j][type][1], rs[k][type][1])
           /\ (\A k \in WithResults(type) : ~Exceeds(rs[k][type][1], [num |-> 0, den |-> 1])) => best = ""

\* Both databases have the same positive tps and the first one, mysql, is
\* announced as best write performer.
C33_Witness ==
    /\ "write" \in reporter.compared
    /\ Len(reporter.results) = 2
    /\ reporter.results[1].db = "mysql"
    /\ reporter.results[1].write = <<[num |-> 5, den |-> 1]>>
    /\ reporter.results[2].write = <<[num |-> 5, den |-> 1]>>
    /\ reporter.best.write = "mysql"

====
